---- MODULE Spec2Model ----
(***************************************************************************)
(* Model of pyfile_summariser/cli.py: summarise() parses a Python module,  *)
(* records the line range of every function body, strips the tree down to  *)
(* an outline, gathers the column-0 comments outside the recorded ranges   *)
(* and renders comments + outline.                                         *)
(*                                                                         *)
(* Source text is a sequence of physical lines.  A line is a record        *)
(*   kind : "def" | "adef" | "def1" | "class" | "if" | "stmt" | "str"      *)
(*          | "comment" | "blank"                                          *)
(*   ind  : indentation level of the line (column = 4 * ind)               *)
(*   name : identifier of a def/class, text of a comment or statement      *)
(*   val  : the value of a string literal statement, NoValue otherwise     *)
(*   q    : quoting of a string literal statement ("'" or triple)          *)
(* "def1" is a one-line definition  def f(): pass .                        *)
(***************************************************************************)
EXTENDS Integers, Sequences, FiniteSets, TLC

MaxLines == 4
MaxDepth == 2

NoValue == "~"
PLACEHOLDER == "(implementation not shown)"

Line(k, i, n, v, qq) == [kind |-> k, ind |-> i, name |-> n, val |-> v, q |-> qq]
Blank == Line("blank", 0, 0, NoValue, NoValue)

HeaderKinds == {"def", "adef", "class", "if"}
CodeKinds == HeaderKinds \cup {"def1", "stmt", "str"}
IsCode(l) == l.kind \in CodeKinds

(* ---------------- the inputs: syntactically valid modules -------------- *)
RECURSIVE LastCode(_)
LastCode(p) ==
    IF p = << >> THEN Blank
    ELSE IF IsCode(p[Len(p)]) THEN p[Len(p)]
    ELSE LastCode(SubSeq(p, 1, Len(p) - 1))

\* the lines a module may hold at line n: comments at column 0 or 4,
\* definitions, statements and string literals at any depth
AllLines(n) ==
    {Line("comment", c, n, NoValue, NoValue) : c \in {0, 1}}
    \cup {Line(k, i, n, NoValue, NoValue) : k \in CodeKinds \ {"str"}, i \in 0..MaxDepth}
    \cup {Line("str", i, 0, "doc", "'") : i \in 0..MaxDepth}

\* l may follow the prefix p in a well-indented module: a block opens right
\* after a header and only there; comments do not count for indentation
CanFollow(p, l) ==
    LET lc == LastCode(p)
    IN  \/ l.kind = "comment"
        \/ IF lc.kind = "blank" THEN l.ind = 0
           ELSE IF lc.kind \in HeaderKinds THEN l.ind = lc.ind + 1
           ELSE l.ind <= lc.ind

\* the well-indented line sequences of exactly k lines
RECURSIVE Prefixes(_)
Prefixes(k) ==
    IF k = 0 THEN {<< >>}
    ELSE {Append(x[1], x[2]) :
             x \in {y \in Prefixes(k - 1) \X AllLines(k) : CanFollow(y[1], y[2])}}

\* a module does not end in a header without a body
IsSource(p) == LastCode(p).kind \notin HeaderKinds

(* ---------------- Parser: ast.parse(source) ----------------------------- *)
Node(t, l, e, n, v, b) ==
    [type |-> t, lineno |-> l, end_lineno |-> e, name |-> n, value |-> v, body |-> b]

\* line numbers (1-based) of the lines of src that hold code, top to bottom
RECURSIVE CodeLinesFrom(_, _)
CodeLinesFrom(src, i) ==
    IF i > Len(src) THEN << >>
    ELSE IF IsCode(src[i]) THEN <<i>> \o CodeLinesFrom(src, i + 1)
    ELSE CodeLinesFrom(src, i + 1)

CodeLines(src) == CodeLinesFrom(src, 1)

\* the grammar's indentation rules: what ast.parse accepts
ParseOK(src) ==
    LET c == CodeLines(src)
    IN  /\ c # << >> => src[c[1]].ind = 0
        /\ c # << >> => src[c[Len(c)]].kind \notin HeaderKinds
        /\ \A j \in 1..(Len(c) - 1) :
              IF src[c[j]].kind \in HeaderKinds
              THEN src[c[j + 1]].ind = src[c[j]].ind + 1
              ELSE src[c[j + 1]].ind <= src[c[j]].ind

\* number of leading entries of idxs indented deeper than d
RECURSIVE Deeper(_, _, _)
Deeper(src, idxs, d) ==
    IF idxs = << >> \/ src[Head(idxs)].ind <= d THEN 0
    ELSE 1 + Deeper(src, Tail(idxs), d)

NodeType(k) ==
    CASE k = "def"   -> "FunctionDef"
      [] k = "def1"  -> "FunctionDef"
      [] k = "adef"  -> "AsyncFunctionDef"
      [] k = "class" -> "ClassDef"
      [] k = "if"    -> "If"
      [] k = "str"   -> "Expr"
      [] OTHER       -> "Assign"

RECURSIVE ParseBlock(_, _)
ParseBlock(src, idxs) ==
    IF idxs = << >> THEN << >>
    ELSE LET i    == Head(idxs)
             l    == src[i]
             k    == Deeper(src, Tail(idxs), l.ind)
             kids == IF l.kind = "def1"
                     THEN <<Node("Pass", i, i, 0, NoValue, << >>)>>
                     ELSE ParseBlock(src, SubSeq(idxs, 2, k + 1))
             e    == IF kids = << >> THEN i ELSE kids[Len(kids)].end_lineno
         IN  <<Node(NodeType(l.kind), i, e, l.name, l.val, kids)>>
             \o ParseBlock(src, SubSeq(idxs, k + 2, Len(idxs)))

ast_parse(src) == Node("Module", 0, 0, 0, NoValue, ParseBlock(src, CodeLines(src)))

NoTree == Node("None", 0, 0, 0, NoValue, << >>)

(* ---------------- helpers ------------------------------------------------ *)
is_docstring(node) == node.type = "Expr" /\ node.value # NoValue

FunctionTypes == {"FunctionDef", "AsyncFunctionDef"}

\* ast.walk: breadth-first list of all nodes
RECURSIVE ast_walk(_)
ast_walk(todo) ==
    IF todo = << >> THEN << >>
    ELSE <<Head(todo)>> \o ast_walk(Tail(todo) \o Head(todo).body)

\* mutation: the body is taken to start one line past the signature
BodyRange_PastSignature(n) == <<n.lineno + 1, n.end_lineno>>

\* (start, end) of the body of function node n
BodyRange(n) ==
    <<(IF n.body # << >> THEN n.body[1].lineno ELSE n.lineno + 1), n.end_lineno>>

RECURSIVE RangesOf(_)
RangesOf(nodes) ==
    IF nodes = << >> THEN << >>
    ELSE (IF Head(nodes).type \in FunctionTypes THEN <<BodyRange(Head(nodes))>> ELSE << >>)
         \o RangesOf(Tail(nodes))

collect_body_ranges(t) == RangesOf(ast_walk(<<t>>))

BodyLines(ranges) == UNION {r[1]..r[2] : r \in {ranges[i] : i \in DOMAIN ranges}}

\* tokenize: the comment tokens of src in order, each kept when it starts at
\* column 0 on a line outside the body lines; the kept item is the whole line
RECURSIVE KeepFrom(_, _, _)
KeepFrom(src, i, body_lines) ==
    IF i > Len(src) THEN << >>
    ELSE (IF src[i].kind = "comment" /\ i \notin body_lines /\ src[i].ind = 0
          THEN <<src[i]>> ELSE << >>)
         \o KeepFrom(src, i + 1, body_lines)

get_toplevel_comments(src, ranges) == KeepFrom(src, 1, BodyLines(ranges))

(* ---------------- Outline (ast.NodeTransformer) -------------------------- *)
RECURSIVE Outline_visit(_)

\* [self.visit(child) for child in body if isinstance(child, types)]
RECURSIVE VisitChildren(_, _)
VisitChildren(body, types) ==
    IF body = << >> THEN << >>
    ELSE (IF Head(body).type \in types THEN <<Outline_visit(Head(body))>> ELSE << >>)
         \o VisitChildren(Tail(body), types)

KeptDocstring(node) ==
    IF node.body # << >> /\ is_docstring(node.body[1]) THEN <<node.body[1]>> ELSE << >>

\* mutation: the module docstring is not kept
visit_Module_NoDocstring(node) ==
    [node EXCEPT !.body = VisitChildren(node.body, {"ClassDef"} \cup FunctionTypes)]

visit_Module(node) ==
    [node EXCEPT !.body = KeptDocstring(node)
                          \o VisitChildren(node.body, {"ClassDef"} \cup FunctionTypes)]

\* mutation: nested classes are kept and visited like methods
visit_ClassDef_KeepNested(node) ==
    [node EXCEPT !.body = KeptDocstring(node)
                          \o VisitChildren(node.body, {"ClassDef"} \cup FunctionTypes)]

\* mutation: async methods are not recognised
visit_ClassDef_SyncOnly(node) ==
    [node EXCEPT !.body = KeptDocstring(node) \o VisitChildren(node.body, {"FunctionDef"})]

visit_ClassDef(node) ==
    [node EXCEPT !.body = KeptDocstring(node) \o VisitChildren(node.body, FunctionTypes)]

\* a node built by the transformer has no position yet (lineno 0)
Placeholder == Node("Expr", 0, 0, 0, PLACEHOLDER, << >>)

\* mutation: the docstring is stripped with the rest of the body
strip_fn_NoDocstring(node) ==
    [node EXCEPT !.body = <<Placeholder>>]

strip_fn(node) ==
    [node EXCEPT !.body = KeptDocstring(node) \o <<Placeholder>>]

Outline_visit(node) ==
    CASE node.type = "Module"        -> visit_Module(node)
      [] node.type = "ClassDef"      -> visit_ClassDef(node)
      [] node.type \in FunctionTypes -> strip_fn(node)
      [] OTHER                       -> node

(* ---------------- ast.fix_missing_locations ------------------------------ *)
RECURSIVE FixNode(_, _, _)
RECURSIVE FixEach(_, _, _)
FixEach(body, l, e) ==
    IF body = << >> THEN << >>
    ELSE <<FixNode(Head(body), l, e)>> \o FixEach(Tail(body), l, e)

FixNode(node, lineno, end_lineno) ==
    LET l == IF node.lineno = 0 THEN lineno ELSE node.lineno
        e == IF node.end_lineno = 0 THEN end_lineno ELSE node.end_lineno
    IN  [node EXCEPT !.lineno = l, !.end_lineno = e, !.body = FixEach(node.body, l, e)]

fix_missing_locations(t) == [t EXCEPT !.body = FixEach(t.body, 1, 0)]

(* ---------------- Renderer: ast.unparse ---------------------------------- *)
RECURSIVE Traverse(_, _)

\* a leading docstring is written triple-quoted, the rest is traversed
write_docstring_and_traverse_body(node, ind) ==
    IF node.body # << >> /\ is_docstring(node.body[1])
    THEN <<Line("str", ind, 0, node.body[1].value, "\"\"\"")>>
         \o Traverse(Tail(node.body), ind)
    ELSE Traverse(node.body, ind)

UnparseNode(n, ind) ==
    CASE n.type = "FunctionDef" ->
            <<Blank, Line("def", ind, n.name, NoValue, NoValue)>>
            \o write_docstring_and_traverse_body(n, ind + 1)
      [] n.type = "AsyncFunctionDef" ->
            <<Blank, Line("adef", ind, n.name, NoValue, NoValue)>>
            \o write_docstring_and_traverse_body(n, ind + 1)
      [] n.type = "ClassDef" ->
            <<Blank, Line("class", ind, n.name, NoValue, NoValue)>>
            \o write_docstring_and_traverse_body(n, ind + 1)
      [] n.type = "If" ->
            <<Line("if", ind, n.name, NoValue, NoValue)>> \o Traverse(n.body, ind + 1)
      [] n.type = "Expr" -> <<Line("str", ind, 0, n.value, "'")>>
      [] OTHER -> <<Line("stmt", ind, n.name, NoValue, NoValue)>>

Traverse(body, ind) ==
    IF body = << >> THEN << >>
    ELSE UnparseNode(Head(body), ind) \o Traverse(Tail(body), ind)

\* the rendered text as lines; the empty text is one empty line, and no
\* newline is written before the first piece of generated source
ast_unparse(t) ==
    LET ls == write_docstring_and_traverse_body(t, 0)
        s  == IF ls # << >> /\ ls[1] = Blank THEN Tail(ls) ELSE ls
    IN  IF s = << >> THEN <<Blank>> ELSE s

\* mutation: the pieces are joined by a single newline
JoinPieces_SingleNewline(cs, code) ==
    IF cs # << >> THEN cs \o code ELSE code

\* "\n\n".join(pieces) with pieces = ["\n".join(comments)] if comments, + [code]
JoinPieces(cs, code) ==
    IF cs # << >> THEN cs \o <<Blank>> \o code ELSE code

(* ---------------- summarise(), statement by statement -------------------- *)
MaxRuns == 2

VARIABLES pc, run, source, tree, body_ranges, comments, output
vars == <<pc, run, source, tree, body_ranges, comments, output>>

Init ==
    /\ pc = "read"
    /\ run = 1
    /\ \E k \in 0..MaxLines : source \in Prefixes(k) /\ IsSource(source)
    /\ tree = NoTree
    /\ body_ranges = << >>
    /\ comments = << >>
    /\ output = << >>

Parse ==
    /\ pc = "read"
    /\ ParseOK(source)
    /\ tree' = ast_parse(source)
    /\ pc' = "parsed"
    /\ UNCHANGED <<run, source, body_ranges, comments, output>>

ParseError ==
    /\ pc = "read"
    /\ ~ParseOK(source)
    /\ pc' = "error"
    /\ UNCHANGED <<run, source, tree, body_ranges, comments, output>>

CollectRanges ==
    /\ pc = "parsed"
    /\ body_ranges' = collect_body_ranges(tree)
    /\ pc' = "ranged"
    /\ UNCHANGED <<run, source, tree, comments, output>>

Transform ==
    /\ pc = "ranged"
    /\ tree' = Outline_visit(tree)
    /\ pc' = "visited"
    /\ UNCHANGED <<run, source, body_ranges, comments, output>>

FixLocations ==
    /\ pc = "visited"
    /\ tree' = fix_missing_locations(tree)
    /\ pc' = "fixed"
    /\ UNCHANGED <<run, source, body_ranges, comments, output>>

\* mutation: the ranges are collected again at the scan, from the rewritten tree
ScanComments_RewrittenTree ==
    /\ pc = "fixed"
    /\ comments' = get_toplevel_comments(source, collect_body_ranges(tree))
    /\ pc' = "scanned"
    /\ UNCHANGED <<run, source, tree, body_ranges, output>>

ScanComments ==
    /\ pc = "fixed"
    /\ comments' = get_toplevel_comments(source, body_ranges)
    /\ pc' = "scanned"
    /\ UNCHANGED <<run, source, tree, body_ranges, output>>

Render ==
    /\ pc = "scanned"
    /\ output' = JoinPieces(comments, ast_unparse(tree))
    /\ pc' = "done"
    /\ UNCHANGED <<run, source, tree, body_ranges, comments>>

\* the tool is run again on the text it printed
Resummarise ==
    /\ pc = "done"
    /\ run < MaxRuns
    /\ source' = output
    /\ run' = run + 1
    /\ pc' = "read"
    /\ tree' = NoTree
    /\ body_ranges' = << >>
    /\ comments' = << >>
    /\ output' = << >>

Next ==
    \/ Parse
    \/ ParseError
    \/ CollectRanges
    \/ Transform
    \/ FixLocations
    \/ ScanComments
    \/ Render
    \/ Resummarise

Spec == Init /\ [][Next]_vars


(* ======================= properties ===================================== *)
\* the nodes of a tree, and the tree the Parser built for the current source
Nodes(t) == LET w == ast_walk(<<t>>) IN {w[i] : i \in DOMAIN w}
Original == ast_parse(source)

\* positions at which the tree has been rewritten by the Outline Transformer
Rewritten == pc \in {"visited", "fixed", "scanned", "done"}

\* node m is the (possibly rewritten) node n: same kind, name and position
SameNode(m, n) == m.type = n.type /\ m.name = n.name /\ m.lineno = n.lineno

StartsWithString(n) == n.body # << >> /\ n.body[1].type = "Expr"
IsPlaceholder(n) == n.type = "Expr" /\ n.value = PLACEHOLDER /\ n.body = << >>

\* n, a module or class of the rewritten tree, holds exactly the leading
\* docstring of its original o and the members of o of the given types, in
\* order; nothing below any other statement of o is left in the tree
MembersKept(n, o, types) ==
    LET IsMember(x) == x.type \in types
        members == SelectSeq(o.body, IsMember)
        d == IF StartsWithString(o) THEN 1 ELSE 0
    IN  /\ Len(n.body) = d + Len(members)
        /\ d = 1 => n.body[1] = o.body[1]
        /\ \A i \in 1..Len(members) : SameNode(n.body[d + i], members[i])
        /\ \A k \in 1..Len(o.body) :
              (o.body[k].type \notin types /\ ~(k = 1 /\ d = 1)) =>
                 \A x \in Nodes(o.body[k]) : \A m \in Nodes(tree) : ~SameNode(m, x)

\* C5: after transformation the module's children are exactly the module
\* docstring (when the first statement is one) followed by every top-level
\* class, function and async function in original order; no import,
\* assignment, compound statement or later string statement is in the tree.
ModuleRule ==
    Rewritten => MembersKept(tree, Original, {"ClassDef"} \cup FunctionTypes)

ModuleRuleWitness ==
    /\ pc = "done"
    /\ run = 1
    /\ Len(Original.body) = 4
    /\ StartsWithString(Original)
    /\ Original.body[2].type = "Assign"
    /\ Original.body[3].type = "FunctionDef"
    /\ Original.body[4].type = "Expr"
    /\ Len(tree.body) = 2

\* C8: every class left in the tree holds exactly its docstring (when its
\* first statement is one) followed by the functions and async functions
\* directly in its body, in original order; attributes and nested classes,
\* with the methods of the nested classes, are gone.
ClassRule ==
    Rewritten =>
        \A c \in Nodes(tree) : c.type = "ClassDef" =>
            \E o \in Nodes(Original) :
                SameNode(o, c) /\ MembersKept(c, o, FunctionTypes)

ClassRuleWitness ==
    /\ pc = "done"
    /\ run = 1
    /\ \E o \in Nodes(Original) :
          /\ o.type = "ClassDef" /\ o.lineno = 1 /\ Len(o.body) = 2
          /\ o.body[1].type = "ClassDef"
          /\ o.body[1].body[1].type = "FunctionDef"
          /\ o.body[2].type = "FunctionDef"
    /\ Len(tree.body[1].body) = 1

\* C9: every function or async function left in the tree has a body of one
\* or two statements: its original first statement exactly when that was a
\* docstring, then one placeholder statement as the last statement; no other
\* statement of the original body, nested definitions included, is in the tree.
FunctionRule ==
    Rewritten =>
        \A f \in Nodes(tree) : f.type \in FunctionTypes =>
            \E o \in Nodes(Original) :
                /\ SameNode(o, f)
                /\ Len(f.body) = (IF StartsWithString(o) THEN 2 ELSE 1)
                /\ StartsWithString(o) => f.body[1] = o.body[1]
                /\ IsPlaceholder([f.body[Len(f.body)] EXCEPT !.lineno = 0, !.end_lineno = 0])
                /\ \A k \in 1..Len(o.body) :
                      ~(k = 1 /\ StartsWithString(o)) =>
                         \A x \in Nodes(o.body[k]) : \A m \in Nodes(tree) : ~SameNode(m, x)

FunctionRuleWitness ==
    /\ pc = "done"
    /\ run = 1
    /\ \E o \in Nodes(Original) :
          /\ o.type = "AsyncFunctionDef" /\ Len(o.body) = 2
          /\ o.body[1].type = "Expr"
          /\ o.body[2].type = "ClassDef"
          /\ o.body[2].body[1].type = "FunctionDef"
          /\ \E f \in Nodes(tree) : SameNode(f, o) /\ Len(f.body) = 2

(* ---------------- notions of the source text ----------------------------- *)
DefKinds == {"def", "adef", "def1"}
Min(S) == CHOOSE x \in S : \A y \in S : x <= y
Max(S) == CHOOSE x \in S : \A y \in S : x >= y

\* the code lines below line i that belong to the block it heads
BlockLines(src, i) ==
    {j \in (i + 1)..Len(src) :
        /\ IsCode(src[j])
        /\ \A k \in (i + 1)..j : IsCode(src[k]) => src[k].ind > src[i].ind}

\* first and last line of the body of the definition on line i
FirstBodyLine(src, i) ==
    IF src[i].kind = "def1" THEN i ELSE Min(BlockLines(src, i))
LastLine(src, i) ==
    IF src[i].kind = "def1" THEN i ELSE Max(BlockLines(src, i))

DefLines(src) == {i \in DOMAIN src : src[i].kind \in DefKinds}

\* line c lies after the signature of some definition and up to its last line
InsideFunction(src, c) ==
    \E i \in DefLines(src) : i < c /\ c <= LastLine(src, i)

Col0Comments(src) == {c \in DOMAIN src : src[c].kind = "comment" /\ src[c].ind = 0}

OutputLines == {output[i] : i \in DOMAIN output}
CommentBlock == {output[i] : i \in 1..Len(comments)}

\* C2: a column-0 comment outside every function body is in the output's
\* comment block; one after a signature and up to the function's last line
\* (also before the first body statement, at any nesting depth) is nowhere
\* in the output.
CommentInvariant ==
    pc = "done" =>
        \A c \in Col0Comments(source) :
            IF InsideFunction(source, c)
            THEN source[c] \notin OutputLines
            ELSE source[c] \in CommentBlock

\* C1: running the tool on its own output yields the same text again, and
\* the second run does not fail.
Idempotence ==
    /\ (run > 1 /\ pc = "done") => output = source
    /\ run > 1 => pc # "error"

\* C4: the rendered code of every accepted input is valid source text:
\* every class and function left in the tree has a non-empty body, and
\* parsing the rendered code succeeds.
RenderedCodeValid ==
    pc = "done" =>
        /\ \A n \in Nodes(tree) :
              n.type \in {"ClassDef"} \cup FunctionTypes => n.body # << >>
        /\ ParseOK(ast_unparse(tree))

\* the functions reachable from the module through class bodies only
RECURSIVE ClassNested(_)
ClassNested(n) ==
    {n.body[i] : i \in {j \in DOMAIN n.body : n.body[j].type \in FunctionTypes}}
    \cup UNION {ClassNested(n.body[i]) :
                   i \in {j \in DOMAIN n.body : n.body[j].type = "ClassDef"}}

\* C3 as stated: every function at module top level or in a class body, the
\* class nested in another class or not, is in the rendered tree with its
\* name and parameters.
SignaturesPreservedInNestedClasses ==
    pc = "done" =>
        \A f \in ClassNested(Original) : \E m \in Nodes(tree) : SameNode(m, f)

\* C3, amended: every function defined at module top level or directly in
\* the body of a top-level class is in the rendered tree, at the same place,
\* with its name and parameters.
SignaturesPreserved ==
    pc = "done" =>
        /\ \A f \in {Original.body[i] : i \in DOMAIN Original.body} :
              f.type \in FunctionTypes =>
                 \E i \in DOMAIN tree.body : SameNode(tree.body[i], f)
        /\ \A c \in {Original.body[i] : i \in DOMAIN Original.body} :
              c.type = "ClassDef" =>
                 \A f \in {c.body[i] : i \in DOMAIN c.body} :
                    f.type \in FunctionTypes =>
                       \E i \in DOMAIN tree.body :
                          /\ SameNode(tree.body[i], c)
                          /\ \E j \in DOMAIN tree.body[i].body :
                                SameNode(tree.body[i].body[j], f)

SignaturesPreservedWitness ==
    /\ pc = "done"
    /\ run = 1
    /\ Len(Original.body) = 2
    /\ Original.body[1].type = "ClassDef"
    /\ Original.body[1].body[1].type = "AsyncFunctionDef"
    /\ Original.body[2].type = "FunctionDef"
    /\ Len(tree.body) = 2
    /\ tree.body[1].body[1].type = "AsyncFunctionDef"

\* position of a line of the source (comment lines are pairwise distinct)
LinePos(l) == CHOOSE p \in DOMAIN source : source[p] = l

\* C6: the output is the kept comment lines in source order, one per line,
\* then one empty line, then the rendered code; with no kept comment it is
\* the rendered code alone; the empty line is there even when the rendered
\* code is empty.
OutputAssembly ==
    pc = "done" =>
        LET code == ast_unparse(tree)
            n    == Len(comments)
        IN  /\ \A i \in 1..n : \A j \in 1..n :
                  i < j => LinePos(comments[i]) < LinePos(comments[j])
            /\ IF n = 0 THEN output = code
               ELSE /\ Len(output) = n + 1 + Len(code)
                    /\ \A i \in 1..n : output[i] = comments[i]
                    /\ output[n + 1] = Blank
                    /\ \A j \in 1..Len(code) : output[n + 1 + j] = code[j]

OutputAssemblyWitness ==
    /\ pc = "done"
    /\ run = 1
    /\ Len(comments) = 2
    /\ ast_unparse(tree) = <<Blank>>
    /\ Len(output) = 4

\* C7 as stated: the Comment Scanner runs before any rewrite of the tree.
ScannerRunsBeforeRewrite ==
    pc = "fixed" => tree = Original

\* C7, amended: the Range Collector finishes before the tree is rewritten;
\* the Comment Scanner runs after the rewrite, on the source text as read
\* and against the ranges of the tree as parsed.
RangesOfOriginalTree ==
    /\ pc = "parsed" => tree = Original
    /\ pc \in {"ranged", "visited", "fixed", "scanned", "done"} =>
          body_ranges = collect_body_ranges(Original)
    /\ pc \in {"scanned", "done"} =>
          comments = get_toplevel_comments(source, collect_body_ranges(Original))

RangesOfOriginalTreeWitness ==
    /\ pc = "scanned"
    /\ run = 1
    /\ tree # Original
    /\ Len(body_ranges) = 2
    /\ Len(comments) = 1
    /\ Len(source) = 4

RangeBag(rs) == [r \in {rs[i] : i \in DOMAIN rs} |-> Cardinality({i \in DOMAIN rs : rs[i] = r})]
DefRangeBag(src) ==
    LET R(i) == <<FirstBodyLine(src, i), LastLine(src, i)>>
    IN  [r \in {R(i) : i \in DefLines(src)} |-> Cardinality({i \in DefLines(src) : R(i) = r})]

\* C10 as stated: one range per function at every depth, from the line of
\* its first body statement to its last line, start <= end, and no range
\* holds the signature line of its own function.
RangesExcludeSignature ==
    pc = "ranged" =>
        /\ RangeBag(body_ranges) = DefRangeBag(source)
        /\ \A i \in DefLines(source) :
              /\ FirstBodyLine(source, i) <= LastLine(source, i)
              /\ i \notin FirstBodyLine(source, i)..LastLine(source, i)

\* C10, amended: one range per function at every depth, from the line of
\* its first body statement to its last line, start <= end; the range holds
\* the signature line exactly when the body starts on that line.
RangeCollection ==
    pc = "ranged" =>
        /\ Len(body_ranges) = Cardinality(DefLines(source))
        /\ RangeBag(body_ranges) = DefRangeBag(source)
        /\ \A k \in DOMAIN body_ranges : body_ranges[k][1] <= body_ranges[k][2]
        /\ \A i \in DefLines(source) :
              /\ i <= FirstBodyLine(source, i)
              /\ (i \in FirstBodyLine(source, i)..LastLine(source, i))
                    <=> source[i].kind = "def1"

RangeCollectionWitness ==
    /\ pc = "ranged"
    /\ run = 1
    /\ Len(body_ranges) = 2
    /\ source[1].kind = "if"
    /\ \E i \in DefLines(source) : source[i].ind = 2
====
